---- MODULE Spec2Model ----
(***************************************************************************)
(* Model of test-files/machine_learning.py: the BaseModel contract         *)
(* (fit / predict / evaluate), its two implementations LinearRegression    *)
(* and NeuralNetwork sharing one ModelConfig, and the closing comparison   *)
(* of main.                                                                *)
(*                                                                         *)
(* Numeric arrays are represented by what determines them: the draw of    *)
(* the global random generator that initialised them (seed), their shape, *)
(* and the number of gradient-descent updates applied since (updates).     *)
(* A fit call is modelled step by step (initialisation, one step per       *)
(* loop iteration, return); predict and evaluate are single steps.  The    *)
(* methods may be called in any order on the two models main constructs;   *)
(* main's closing comparison is its last statement, after which no call    *)
(* is made.  nfits counts the fit calls begun, to bound the exploration.   *)
(***************************************************************************)
EXTENDS Integers, Sequences, FiniteSets, TLC

\* ---------------------------------------------------------------- bounds
MaxEpochs == 101
MaxSamples == 2
MaxFeatures == 1
MaxFits == 2
MaxErr == 1

\* ------------------------------------------------------ program constants
LogEvery == 100
LearningRateMilli == 10
RegularizationMilli == 1
BatchSize == 32

ModelIds == {"lr", "nn"}

\* epoch counts tried: none, one, a whole number of 100-epoch periods, and
\* the largest, which runs past a period's end
EpochChoices == {0, 1, LogEvery, MaxEpochs}
\* hidden_sizes lists tried for the neural network
HiddenChoices == {<<>>, <<0>>, <<1>>}
\* sample counts tried: a single sample (which broadcasts) and the largest
SampleCounts == {1, MaxSamples}
\* feature counts tried: no feature column and the largest
FeatureCounts == {0, MaxFeatures}
ErrChoices == 0..MaxErr

None == [kind |-> "None"]
NoCall == [op |-> "none"]

VARIABLES config, models, rng, call, result, comparison, nfits

vars == <<config, models, rng, call, result, comparison, nfits>>

\* ----------------------------------------------------------- construction
\* ModelConfig(learning_rate=0.01, epochs=E, regularization=0.001)
ModelConfig(E) ==
    [learning_rate |-> LearningRateMilli, epochs |-> E,
     batch_size |-> BatchSize, regularization |-> RegularizationMilli]

\* BaseModel.__init__ : trained = False, loss_history = []
BaseModel_init == [trained |-> FALSE, loss_history |-> <<>>]

\* LinearRegression.__init__
LinearRegression_init ==
    [trained |-> BaseModel_init.trained,
     loss_history |-> BaseModel_init.loss_history,
     weights |-> None, bias |-> None]

\* NeuralNetwork.__init__
NeuralNetwork_init(hidden_sizes) ==
    [trained |-> BaseModel_init.trained,
     loss_history |-> BaseModel_init.loss_history,
     hidden_sizes |-> hidden_sizes, layers |-> <<>>]

Init ==
    /\ \E E \in EpochChoices : config = ModelConfig(E)
    /\ \E h \in HiddenChoices :
          models = [id \in ModelIds |->
                      IF id = "lr" THEN LinearRegression_init
                                   ELSE NeuralNetwork_init(h)]
    /\ rng = 0
    /\ call = NoCall
    /\ result = [op |-> "none"]
    /\ comparison = None
    /\ nfits = 0

\* ------------------------------------------------------------ array terms
\* an array drawn from the random generator: np.random.normal / uniform
Drawn(seed, rows, cols) ==
    [kind |-> "ndarray", seed |-> seed, rows |-> rows, cols |-> cols, updates |-> 0]

\* an array (or scalar) of zeros: np.zeros / 0
Zeros(rows, cols) ==
    [kind |-> "ndarray", seed |-> -1, rows |-> rows, cols |-> cols, updates |-> 0]

\* p -= learning_rate * gradient
Updated(p) == [p EXCEPT !.updates = @ + 1]

\* numpy raises on y - y_pred / X.T @ (y_pred - y) unless the target count
\* equals the sample count or broadcasts from a single target
ShapesAgree(m, my) == my = m \/ my = 1

\* a loop that tests its condition after the body: one iteration even for 0 epochs
range_exhausted_do_while(epoch, epochs) == epoch >= epochs /\ epoch > 0

\* a loop that also stops at the first loss snapshot after the start
range_exhausted_early(epoch, epochs) == epoch >= epochs \/ epoch >= LogEvery

\* range(self.config.epochs) is exhausted at loop index epoch
range_exhausted(epoch, epochs) == epoch >= epochs

\* loss_history as one list shared by every model (a class-level attribute)
append_loss_shared(ms, id, loss) ==
    [i \in DOMAIN ms |-> [ms[i] EXCEPT !.loss_history = Append(@, loss)]]

\* self.loss_history.append(loss) on model id
append_loss(ms, id, loss) ==
    [ms EXCEPT ![id].loss_history = Append(@, loss)]

\* the flag set where the loss is recorded, inside the loop
fit_finish_if_logged(mdl) ==
    [mdl EXCEPT !.trained = @ \/ mdl.loss_history # <<>>]

\* self.trained = True
fit_finish(mdl) == [mdl EXCEPT !.trained = TRUE]

\* -------------------------------------------------- LinearRegression.fit
\* an initialisation that also resets the trained flag
LinearRegression_initialize_reset(mdl, n, seed) ==
    [mdl EXCEPT !.weights = Drawn(seed, n, 1), !.bias = Zeros(1, 1),
                !.trained = FALSE]

\* self.weights = np.random.normal(0, 0.01, n); self.bias = 0
LinearRegression_initialize(mdl, n, seed) ==
    [mdl EXCEPT !.weights = Drawn(seed, n, 1), !.bias = Zeros(1, 1)]

LinearRegression_fit_begin(m, n, my) ==
    /\ call = NoCall /\ comparison = None
    /\ nfits < MaxFits
    /\ nfits' = nfits + 1
    /\ models' = [models EXCEPT !["lr"] = LinearRegression_initialize(@, n, rng)]
    /\ rng' = rng + 1
    /\ call' = [op |-> "fit", model |-> "lr", m |-> m, n |-> n, my |-> my, epoch |-> 0]
    /\ result' = [op |-> "fit", model |-> "lr", outcome |-> "running", value |-> None]
    /\ UNCHANGED <<config, comparison>>

\* one iteration of the loop at lines 84-104
LinearRegression_fit_epoch ==
    /\ call.op = "fit" /\ call.model = "lr"
    /\ ~range_exhausted(call.epoch, config.epochs)
    /\ IF ~ShapesAgree(call.m, call.my)
       THEN \* the forward/backward pass raises before any update
            /\ call' = NoCall
            /\ result' = [result EXCEPT !.outcome = "ValueError_shape"]
            /\ UNCHANGED models
       ELSE /\ LET upd == [models EXCEPT !["lr"].weights = Updated(@),
                                         !["lr"].bias = Updated(@)]
               IN models' = IF call.epoch % LogEvery = 0
                            THEN append_loss(upd, "lr", call.epoch)
                            ELSE upd
            /\ call' = [call EXCEPT !.epoch = @ + 1]
            /\ UNCHANGED result
    /\ UNCHANGED <<config, rng, comparison, nfits>>

LinearRegression_fit_return ==
    /\ call.op = "fit" /\ call.model = "lr"
    /\ range_exhausted(call.epoch, config.epochs)
    /\ models' = [models EXCEPT !["lr"] = fit_finish(@)]
    /\ call' = NoCall
    /\ result' = [result EXCEPT !.outcome = "ok"]
    /\ UNCHANGED <<config, rng, comparison, nfits>>

\* ----------------------------------------------------- NeuralNetwork.fit
\* the loop of _initialize_weights from index i on: 6 / (sizes[i] + sizes[i+1])
\* raises ZeroDivisionError when both sizes are 0, leaving the layers
\* appended so far
RECURSIVE InitLayers(_, _, _, _)
InitLayers(sizes, i, layers, seed) ==
    IF i > Len(sizes) - 1
    THEN [layers |-> layers, rng |-> seed, error |-> FALSE]
    ELSE IF sizes[i] + sizes[i + 1] = 0
         THEN [layers |-> layers, rng |-> seed, error |-> TRUE]
         ELSE InitLayers(sizes, i + 1,
                         Append(layers, [weight |-> Drawn(seed, sizes[i], sizes[i + 1]),
                                         bias |-> Zeros(1, sizes[i + 1])]),
                         seed + 1)

\* NeuralNetwork._initialize_weights(input_size, output_size)
initialize_weights(mdl, input_size, output_size, seed) ==
    InitLayers(<<input_size>> \o mdl.hidden_sizes \o <<output_size>>, 1, <<>>, seed)

NeuralNetwork_fit_begin(m, n, my) ==
    /\ call = NoCall /\ comparison = None
    /\ nfits < MaxFits
    /\ nfits' = nfits + 1
    /\ LET init == initialize_weights(models["nn"], n, 1, rng)
       IN /\ models' = [models EXCEPT !["nn"].layers = init.layers]
          /\ rng' = init.rng
          /\ IF init.error
             THEN /\ call' = NoCall
                  /\ result' = [op |-> "fit", model |-> "nn",
                                outcome |-> "ZeroDivisionError", value |-> None]
             ELSE /\ call' = [op |-> "fit", model |-> "nn", m |-> m, n |-> n,
                              my |-> my, epoch |-> 0]
                  /\ result' = [op |-> "fit", model |-> "nn",
                                outcome |-> "running", value |-> None]
    /\ UNCHANGED <<config, comparison>>

\* one iteration of the loop at lines 152-183
NeuralNetwork_fit_epoch ==
    /\ call.op = "fit" /\ call.model = "nn"
    /\ ~range_exhausted(call.epoch, config.epochs)
    /\ IF ~ShapesAgree(call.m, call.my)
       THEN /\ call' = NoCall
            /\ result' = [result EXCEPT !.outcome = "ValueError_shape"]
            /\ UNCHANGED models
       ELSE /\ LET upd == [models EXCEPT !["nn"].layers =
                              [i \in DOMAIN @ |->
                                 [weight |-> Updated(@[i].weight),
                                  bias |-> Updated(@[i].bias)]]]
               IN models' = IF call.epoch % LogEvery = 0
                            THEN append_loss(upd, "nn", call.epoch)
                            ELSE upd
            /\ call' = [call EXCEPT !.epoch = @ + 1]
            /\ UNCHANGED result
    /\ UNCHANGED <<config, rng, comparison, nfits>>

NeuralNetwork_fit_return ==
    /\ call.op = "fit" /\ call.model = "nn"
    /\ range_exhausted(call.epoch, config.epochs)
    /\ models' = [models EXCEPT !["nn"] = fit_finish(@)]
    /\ call' = NoCall
    /\ result' = [result EXCEPT !.outcome = "ok"]
    /\ UNCHANGED <<config, rng, comparison, nfits>>

\* ------------------------------------------------------------- predict
\* a predict that tests for allocated weights instead of the trained flag
LinearRegression_predict_unchecked(mdl, mx, nx) ==
    IF mdl.weights.kind = "None"
    THEN [outcome |-> "ValueError_untrained", value |-> None]
    ELSE IF nx # mdl.weights.rows
         THEN [outcome |-> "ValueError_shape", value |-> None]
         ELSE [outcome |-> "ok", value |-> [kind |-> "predictions", len |-> mx]]

\* LinearRegression.predict(X), X of shape (mx, nx)
LinearRegression_predict(mdl, mx, nx) ==
    IF ~mdl.trained
    THEN [outcome |-> "ValueError_untrained", value |-> None]
    ELSE IF nx # mdl.weights.rows
         THEN \* X @ self.weights: dimension mismatch
              [outcome |-> "ValueError_shape", value |-> None]
         ELSE [outcome |-> "ok", value |-> [kind |-> "predictions", len |-> mx]]

\* NeuralNetwork.predict(X), X of shape (mx, nx)
NeuralNetwork_predict(mdl, mx, nx) ==
    IF ~mdl.trained
    THEN [outcome |-> "ValueError_untrained", value |-> None]
    ELSE IF mdl.layers = <<>>
         THEN \* the loop runs over no layer: X.flatten()
              [outcome |-> "ok", value |-> [kind |-> "predictions", len |-> mx * nx]]
         ELSE IF nx # mdl.layers[1].weight.rows
              THEN [outcome |-> "ValueError_shape", value |-> None]
              ELSE [outcome |-> "ok",
                    value |-> [kind |-> "predictions",
                               len |-> mx * mdl.layers[Len(mdl.layers)].weight.cols]]

\* self.predict(X): dispatch on the model's class
Model_predict(id, mdl, mx, nx) ==
    IF id = "lr" THEN LinearRegression_predict(mdl, mx, nx)
                 ELSE NeuralNetwork_predict(mdl, mx, nx)

Predict(id, mx, nx) ==
    /\ call = NoCall /\ comparison = None
    /\ LET r == Model_predict(id, models[id], mx, nx)
       IN result' = [op |-> "predict", model |-> id,
                     outcome |-> r.outcome, value |-> r.value]
    /\ UNCHANGED <<config, models, rng, call, comparison, nfits>>

\* ------------------------------------------------------------ evaluate
\* np.sqrt on a perfect square
Sqrt(x) == CHOOSE r \in 0..x : r * r = x

\* the metrics dictionary for residuals y - predictions all of magnitude err
Metrics(err) ==
    [kind |-> "metrics", mse |-> err * err, mae |-> err, rmse |-> Sqrt(err * err)]

\* BaseModel.evaluate(X, y): X of shape (mx, nx), y of shape (my,)
BaseModel_evaluate(id, mdl, mx, nx, my, err) ==
    LET p == Model_predict(id, mdl, mx, nx)
    IN IF p.outcome # "ok"
       THEN p
       ELSE IF ~(my = p.value.len \/ my = 1 \/ p.value.len = 1)
            THEN \* y - predictions does not broadcast
                 [outcome |-> "ValueError_shape", value |-> None]
            ELSE IF p.value.len = 0
                 THEN \* np.mean of an empty array
                      [outcome |-> "ok", value |-> [kind |-> "metrics_nan"]]
                 ELSE [outcome |-> "ok", value |-> Metrics(err)]

\* an evaluate that records the measured error in the model's loss history
Evaluate_recording(id, mx, nx, my, err) ==
    /\ call = NoCall /\ comparison = None
    /\ LET r == BaseModel_evaluate(id, models[id], mx, nx, my, err)
       IN /\ result' = [op |-> "evaluate", model |-> id,
                        outcome |-> r.outcome, value |-> r.value]
          /\ models' = IF r.outcome = "ok"
                       THEN [models EXCEPT ![id].loss_history = Append(@, err)]
                       ELSE models
    /\ UNCHANGED <<config, rng, call, comparison, nfits>>

Evaluate(id, mx, nx, my, err) ==
    /\ call = NoCall /\ comparison = None
    /\ LET r == BaseModel_evaluate(id, models[id], mx, nx, my, err)
       IN result' = [op |-> "evaluate", model |-> id,
                     outcome |-> r.outcome, value |-> r.value]
    /\ UNCHANGED <<config, models, rng, call, comparison, nfits>>

\* ----------------------------------------------------------------- main
\* the comparison at lines 251-254
Compare(lr_rmse, nn_rmse) ==
    IF lr_rmse < nn_rmse THEN "Linear Regression" ELSE "Neural Network"

\* main's closing comparison of lr_metrics and nn_metrics, the results of
\* evaluating the two fitted models
main_compare(lr_err, nn_err) ==
    /\ call = NoCall /\ comparison = None
    /\ models["lr"].trained /\ models["nn"].trained
    /\ LET lr_metrics == Metrics(lr_err)
           nn_metrics == Metrics(nn_err)
       IN comparison' = [kind |-> "comparison",
                         lr_rmse |-> lr_metrics.rmse, nn_rmse |-> nn_metrics.rmse,
                         named |-> Compare(lr_metrics.rmse, nn_metrics.rmse)]
    /\ UNCHANGED <<config, models, rng, call, result, nfits>>

FitStep ==
    \/ LinearRegression_fit_epoch
    \/ LinearRegression_fit_return
    \/ NeuralNetwork_fit_epoch
    \/ NeuralNetwork_fit_return

Next ==
    \/ \E m \in SampleCounts, n \in FeatureCounts, my \in SampleCounts :
          LinearRegression_fit_begin(m, n, my)
    \/ LinearRegression_fit_epoch
    \/ LinearRegression_fit_return
    \/ \E m \in SampleCounts, n \in FeatureCounts, my \in SampleCounts :
          NeuralNetwork_fit_begin(m, n, my)
    \/ NeuralNetwork_fit_epoch
    \/ NeuralNetwork_fit_return
    \/ \E id \in ModelIds, mx \in SampleCounts, nx \in FeatureCounts :
          Predict(id, mx, nx)
    \/ \E id \in ModelIds, mx \in SampleCounts, nx \in FeatureCounts,
          my \in SampleCounts, err \in ErrChoices :
          Evaluate(id, mx, nx, my, err)
    \/ \E lr_err \in ErrChoices, nn_err \in ErrChoices :
          main_compare(lr_err, nn_err)

Spec == Init /\ [][Next]_vars

\* ------------------------------------------------------------ properties
\* the number k such that every parameter array of mdl has had exactly k updates
UpdatesAre(id, mdl, k) ==
    IF id = "lr"
    THEN mdl.weights.updates = k /\ mdl.bias.updates = k
    ELSE \A i \in DOMAIN mdl.layers :
            mdl.layers[i].weight.updates = k /\ mdl.layers[i].bias.updates = k

\* ceil(a / b)
CeilDiv(a, b) == (a + b - 1) \div b

FitReturned == result.op = "fit" /\ result.outcome = "ok"

\* C1: a predict or evaluate call on a model whose trained flag is false, of
\* either kind, ends with the untrained-model ValueError and returns no value.
C1_UntrainedPredictFails ==
    [][\A id \in ModelIds :
          (/\ call = NoCall /\ call' = NoCall /\ comparison' = comparison
           /\ result'.op \in {"predict", "evaluate"} /\ result'.model = id
           /\ ~models[id].trained)
          => (result'.outcome = "ValueError_untrained" /\ result'.value = None)]_vars

\* evaluate was refused on a network whose only fit was aborted after its
\* layers were allocated, and predict on a regression with allocated weights
C1_Witness ==
    /\ result.op = "evaluate" /\ result.model = "nn"
    /\ result.outcome = "ValueError_untrained"
    /\ ~models["nn"].trained /\ models["nn"].layers # <<>>
    /\ ~models["lr"].trained /\ models["lr"].weights.kind = "ndarray"

\* C2: when fit returns normally, for any epoch count and dataset, the
\* model's trained flag is true, for both kinds.
C2_FitSetsTrained == FitReturned => models[result.model].trained

\* a fit over zero epochs has just returned on the network, the regression
\* having been fitted before it
C2_Witness ==
    /\ FitReturned /\ result.model = "nn" /\ config.epochs = 0
    /\ models["nn"].trained /\ models["lr"].trained

\* C3: once a model's trained flag is true it is true in every later state,
\* also while a re-invoked fit runs and after it returns.
C3_TrainedIsStable ==
    [][\A id \in ModelIds : models[id].trained => models'[id].trained]_vars

\* a re-invoked fit is running on a trained regression, past its first epoch
C3_Witness ==
    /\ call.op = "fit" /\ call.model = "lr" /\ call.epoch >= 1
    /\ models["lr"].trained

\* C4: after any fit returns with epoch count E the loss history holds
\* ceil(E / 100) entries, on a first fit and on a re-invoked one.
C4_LossHistoryLength ==
    FitReturned =>
        Len(models[result.model].loss_history) = CeilDiv(config.epochs, LogEvery)

\* C5: with epochs = 0, fit leaves every parameter at its freshly initialised
\* value (the arrays just drawn, the zero biases, no update applied) and sets
\* the trained flag.
C5_ZeroEpochsKeepsInit ==
    (FitReturned /\ config.epochs = 0) =>
        LET id == result.model
            mdl == models[id]
        IN /\ mdl.trained
           /\ IF id = "lr"
              THEN /\ mdl.weights = Drawn(rng - 1, mdl.weights.rows, 1)
                   /\ mdl.bias = Zeros(1, 1)
              ELSE /\ Len(mdl.layers) = Len(mdl.hidden_sizes) + 1
                   /\ \A i \in DOMAIN mdl.layers :
                         /\ mdl.layers[i].weight =
                               Drawn(rng - Len(mdl.layers) + i - 1,
                                     mdl.layers[i].weight.rows,
                                     mdl.layers[i].weight.cols)
                         /\ mdl.layers[i].bias = Zeros(1, mdl.layers[i].weight.cols)

\* a zero-epoch fit has returned on a network of two layers that was refitted
C5_Witness ==
    /\ FitReturned /\ config.epochs = 0 /\ result.model = "nn"
    /\ Len(models["nn"].layers) = 2 /\ nfits = 2 /\ ~models["lr"].trained
    /\ models["lr"].weights = None

\* C6: the closing sentence names Linear Regression only when its RMSE is the
\* lower one, and Neural Network only when its RMSE is the lower one.
C6_NamesLowerRmse ==
    comparison.kind = "comparison" =>
        /\ comparison.named = "Linear Regression"
              => comparison.lr_rmse < comparison.nn_rmse
        /\ comparison.named = "Neural Network"
              => comparison.nn_rmse < comparison.lr_rmse

\* C7: no step of a call on one model changes the shared ModelConfig or the
\* other model's parameters, trained flag or loss history.
C7_NoSharedState ==
    [][/\ config' = config
       /\ \A a \in ModelIds, b \in ModelIds :
             (/\ a # b
              /\ \/ call.op = "fit" /\ call.model = a
                 \/ call = NoCall /\ result'.op # "none" /\ result'.model = a)
             => models'[b] = models[b]]_vars

\* the regression's fit has recorded a loss while the network holds a trained
\* state with a loss history of its own
C7_Witness ==
    /\ call.op = "fit" /\ call.model = "lr" /\ call.epoch >= 1
    /\ models["nn"].trained /\ Len(models["nn"].loss_history) >= 1
    /\ Len(models["lr"].loss_history) >= 1

C9_TrainedImpliesAllocated ==
    /\ models["lr"].trained =>
          (models["lr"].weights # None /\ models["lr"].bias # None)
    /\ models["nn"].trained =>
          Len(models["nn"].layers) = Len(models["nn"].hidden_sizes) + 1

\* C10: a predict or evaluate call, failed or not, leaves every model's
\* parameters, trained flag and loss history as they were.
C10_PredictIsReadOnly ==
    [][(/\ call = NoCall /\ call' = NoCall
        /\ result'.op \in {"predict", "evaluate"})
       => models' = models]_vars

\* evaluate has returned metrics on a trained regression with a recorded loss
C10_Witness ==
    /\ result.op = "evaluate" /\ result.outcome = "ok" /\ result.model = "lr"
    /\ result.value.kind = "metrics"
    /\ models["lr"].trained /\ models["lr"].loss_history # <<>>
====
